---- MODULE Spec2Model ----
(***************************************************************************)
(* Model of the Bills API server (server/index.js): the in-memory store,   *)
(* the durable store file, and the HTTP handlers, each cut at its await    *)
(* points (body parsing, the durable write, the outbound calls).           *)
(*                                                                         *)
(* JavaScript strings are sequences of lexemes (<<" ", "rent">> is the     *)
(* string " rent"); whitespace is the lexeme " " and decimal digits are    *)
(* the lexemes "0".."9".  JavaScript values are records of one shape,      *)
(* [k, n, s]: k is the type tag, n the number (or 0/1 of a boolean), s     *)
(* the string.                                                             *)
(***************************************************************************)
EXTENDS Integers, Sequences, FiniteSets, Bags, TLC

\* ------------------------------------------------------------------ bounds
MaxRequests == 2

\* ---------------------------------------------------------- JavaScript values
Undefined == [k |-> "undefined", n |-> 0, s |-> <<>>]
NaN == [k |-> "nan", n |-> 0, s |-> <<>>]
Num(x) == [k |-> "number", n |-> x, s |-> <<>>]
Str(q) == [k |-> "string", n |-> 0, s |-> q]
Bool(b) == [k |-> "boolean", n |-> IF b THEN 1 ELSE 0, s |-> <<>>]
Null == [k |-> "null", n |-> 0, s |-> <<>>]

\* ToBoolean: undefined, NaN, 0, "" and false are falsy.
Truthy(v) ==
  CASE v.k = "undefined" -> FALSE
    [] v.k = "null" -> FALSE
    [] v.k = "nan" -> FALSE
    [] v.k = "number" -> v.n # 0
    [] v.k = "boolean" -> v.n = 1
    [] v.k = "string" -> v.s # <<>>

Whitespace == {" "}
Digits == {"0", "1", "2", "3", "4", "5", "6", "7", "8", "9"}

RECURSIVE TrimStart(_)
TrimStart(q) ==
  IF q # <<>> /\ Head(q) \in Whitespace THEN TrimStart(Tail(q)) ELSE q

RECURSIVE TrimEnd(_)
TrimEnd(q) ==
  IF q # <<>> /\ q[Len(q)] \in Whitespace
    THEN TrimEnd(SubSeq(q, 1, Len(q) - 1))
    ELSE q

\* String.prototype.trim
Trim(q) == TrimEnd(TrimStart(q))

DigitValue(c) ==
  CASE c = "0" -> 0 [] c = "1" -> 1 [] c = "2" -> 2 [] c = "3" -> 3
    [] c = "4" -> 4 [] c = "5" -> 5 [] c = "6" -> 6 [] c = "7" -> 7
    [] c = "8" -> 8 [] c = "9" -> 9

RECURSIVE DecimalValue(_)
DecimalValue(q) ==
  IF q = <<>> THEN 0
  ELSE 10 * DecimalValue(SubSeq(q, 1, Len(q) - 1)) + DigitValue(q[Len(q)])

IsDecimal(q) == q # <<>> /\ \A i \in 1..Len(q) : q[i] \in Digits

\* StringToNumber: surrounding whitespace is ignored, "" is 0, an optional
\* sign and decimal digits give the integer, anything else is NaN.
StringToNumber(q) ==
  LET t == Trim(q) IN
  IF t = <<>> THEN Num(0)
  ELSE IF IsDecimal(t) THEN Num(DecimalValue(t))
  ELSE IF Head(t) = "-" /\ IsDecimal(Tail(t)) THEN Num(0 - DecimalValue(Tail(t)))
  ELSE NaN

\* Number(v)
ToNumber(v) ==
  CASE v.k = "undefined" -> NaN
    [] v.k = "null" -> Num(0)
    [] v.k = "nan" -> NaN
    [] v.k = "number" -> v
    [] v.k = "boolean" -> Num(v.n)
    [] v.k = "string" -> StringToNumber(v.s)

\* a || b
Or(a, b) == IF Truthy(a) THEN a ELSE b

\* a + b on numbers
Plus(a, b) == IF a.k = "nan" \/ b.k = "nan" THEN NaN ELSE Num(a.n + b.n)

\* a - b on numbers
Minus(a, b) == IF a.k = "nan" \/ b.k = "nan" THEN NaN ELSE Num(a.n - b.n)

\* String(v) of a string is the string; of a non-negative integer below 10
\* its digit.
DigitOf(x) ==
  CASE x = 0 -> "0" [] x = 1 -> "1" [] x = 2 -> "2" [] x = 3 -> "3"
    [] x = 4 -> "4" [] x = 5 -> "5" [] x = 6 -> "6" [] x = 7 -> "7"
    [] x = 8 -> "8" [] x = 9 -> "9"

RECURSIVE DecimalString(_)
DecimalString(x) ==
  IF x < 10 THEN <<DigitOf(x)>>
  ELSE DecimalString(x \div 10) \o <<DigitOf(x % 10)>>

JsString(v) ==
  CASE v.k = "string" -> v.s
    [] v.k = "number" ->
         IF v.n < 0 THEN <<"-">> \o DecimalString(0 - v.n) ELSE DecimalString(v.n)
    [] v.k = "nan" -> <<"NaN">>
    [] v.k = "boolean" -> IF v.n = 1 THEN <<"true">> ELSE <<"false">>
    [] v.k = "null" -> <<"null">>
    [] v.k = "undefined" -> <<"undefined">>

\* ------------------------------------------------------------------ strings
Rent == <<"rent">>
Gym == <<"gym">>
Constructor == <<"constructor">>
ProtoKey == <<"__proto__">>
May == <<"2024-05">>
June == <<"2024-06">>
TokenA == <<"ExponentPushToken[", "a", "]">>
TokenB == <<"apns-b">>
\* The reply createChatCompletion returns when no key is configured, and a
\* reply of the completion service (or the text that stands in for an empty
\* one).
UnavailableReply == <<"The assistant service is unavailable because the OpenAI API key is not configured on the server.">>
CompletionReply == <<"reply">>
Uuid1 == <<"uuid-1">>
Uuid2 == <<"uuid-2">>
Uuid3 == <<"uuid-3">>

\* The month key of the server's clock (startOfMonthKey with no argument).
startOfMonthKey == May

\* The properties every plain object inherits from Object.prototype, among
\* the strings of the model, with the kind of their value: the built-in
\* functions, and later whatever a handler assigns there.
ObjectPrototypeBuiltins == [nm \in {Constructor} |-> "function"]

\* -------------------------------------------------------------------- state
VARIABLES
  bills,            \* store.bills: sequence of bill records
  payments,         \* store.payments: own month keys -> own paid bill ids
  pushTokens,       \* store.pushTokens: sequence of [token, platform]
  objectPrototype,  \* Object.prototype: property name -> "function" or "true"
  disk,             \* content of the store file (JSON document)
  pending,          \* the request whose handler awaits its body, if any
  inflight,         \* bag of the handlers that await persist(), with their locals
  nreq,             \* number of requests received so far
  budget,           \* number of requests the run receives
  apiKey,           \* whether process.env.OPENAI_API_KEY is set
  server,           \* the process: "starting", "seeding", "listening", "failed", "crashed"
  client,           \* the PushManager of the iOS client: its token, its calls in flight
  last              \* the most recent response

vars == <<bills, payments, pushTokens, objectPrototype, disk, pending, inflight,
          nreq, budget, apiKey, server, client, last>>

NoPayments == [m \in {} |-> {}]

\* The in-memory state the handlers read and write: the store object and
\* Object.prototype, which every property lookup on a plain object reaches.
Mem == [bills |-> bills, payments |-> payments, pushTokens |-> pushTokens,
        proto |-> objectPrototype]

Range(f) == {f[i] : i \in DOMAIN f}

BillIds(bl) == {bl[i].id : i \in DOMAIN bl}

\* JSON.stringify of a number: NaN is written as null.
JsonNumber(v) == IF v.k = "nan" THEN Null ELSE v

\* JSON.stringify(store, null, 2): the own properties of the store object;
\* nothing inherited from Object.prototype is written.
Stringify(st) ==
  [bills |-> [i \in DOMAIN st.bills |->
                [st.bills[i] EXCEPT !.dueDay = JsonNumber(@),
                                    !.amount = JsonNumber(@)]],
   payments |-> st.payments,
   pushTokens |-> st.pushTokens]

\* What store.payments[month] evaluates to: the own month entry, or the
\* property the store's payment object inherits (Object.prototype itself
\* under the key "__proto__"), or undefined.  The months of the model are not
\* names of other Object.prototype properties.
\* ids are the object's own properties, marks those of them whose value is
\* true.
MonthObject(st, month) ==
  IF month \in DOMAIN st.payments
    THEN [kind |-> "own", ids |-> st.payments[month], marks |-> st.payments[month]]
  ELSE IF month = ProtoKey
    THEN [kind |-> "prototype", ids |-> DOMAIN st.proto,
          marks |-> {nm \in DOMAIN st.proto : st.proto[nm] = "true"}]
  ELSE [kind |-> "undefined", ids |-> {}, marks |-> {}]

\* Boolean(paid[bill.id]) with paid = store.payments?.[month] || {}: the
\* lookup finds an own property of the month object or a property inherited
\* from Object.prototype.
PaidLookup(st, month, billId) ==
  billId \in MonthObject(st, month).ids \/ billId \in DOMAIN st.proto

withPaymentStatus(st, month) ==
  [i \in DOMAIN st.bills |->
     [id |-> st.bills[i].id, name |-> st.bills[i].name,
      dueDay |-> st.bills[i].dueDay, amount |-> st.bills[i].amount,
      notes |-> st.bills[i].notes,
      isPaid |-> PaidLookup(st, month, st.bills[i].id)]]

\* bills.reduce((sum, bill) => sum + Number(bill.amount || 0), 0)
RECURSIVE ReduceTotal(_)
ReduceTotal(pb) ==
  IF pb = <<>> THEN Num(0)
  ELSE Plus(ReduceTotal(SubSeq(pb, 1, Len(pb) - 1)),
            ToNumber(Or(pb[Len(pb)].amount, Num(0))))

\* bills.reduce((sum, bill) => sum + (bill.isPaid ? Number(bill.amount || 0) : 0), 0)
RECURSIVE ReducePaid(_)
ReducePaid(pb) ==
  IF pb = <<>> THEN Num(0)
  ELSE Plus(ReducePaid(SubSeq(pb, 1, Len(pb) - 1)),
            IF pb[Len(pb)].isPaid
              THEN ToNumber(Or(pb[Len(pb)].amount, Num(0)))
              ELSE Num(0))

totalsForMonthAllPaid(st, month) ==
  LET pb == withPaymentStatus(st, month)
      total == ReduceTotal(pb)
      paid == ReduceTotal(pb)
  IN [total |-> total, paid |-> paid, remaining |-> Minus(total, paid)]

totalsForMonth(st, month) ==
  LET pb == withPaymentStatus(st, month)
      total == ReduceTotal(pb)
      paid == ReducePaid(pb)
  IN [total |-> total, paid |-> paid, remaining |-> Minus(total, paid)]

\* ---------------------------------------------------------- request bodies
\* parse is the outcome of parseJsonBody: "ok", or the message of the
\* rejection.  A field the JSON object lacks is Undefined.
EmptyBody ==
  [parse |-> "ok", id |-> Undefined, name |-> Undefined, dueDay |-> Undefined,
   amount |-> Undefined, notes |-> Undefined, isPaid |-> Undefined,
   month |-> Undefined, token |-> Undefined, platform |-> Undefined,
   message |-> Undefined]

InvalidJson == [EmptyBody EXCEPT !.parse = "Invalid JSON"]
PayloadTooLarge == [EmptyBody EXCEPT !.parse = "Payload too large"]
RejectedBodies == {InvalidJson, PayloadTooLarge}

\* store.bills.some((bill) => bill.id === billId)
BillExists(bl, billId) == \E i \in DOMAIN bl : bl[i].id = billId

\* store.bills.findIndex((item) => item.id === billId), 0 for -1
FindIndex(bl, billId) ==
  IF BillExists(bl, billId)
    THEN CHOOSE i \in DOMAIN bl :
           bl[i].id = billId /\ \A j \in 1..(i - 1) : bl[j].id # billId
    ELSE 0

\* The result of a handler's synchronous run up to its response or its
\* next await: Answer is the response sent at once, Persist the call of
\* persist() after which the handler answers ok.
Answer(status, st, billId) ==
  [await |-> "none", status |-> status, st |-> st, id |-> billId, out |-> <<>>]

Persist(ok, st, billId) ==
  [await |-> "write", status |-> ok, st |-> st, id |-> billId, out |-> <<>>]

BillIdOfNoTrim(body, uuid) ==
  LET given == Or(body.id, Str(<<>>)).s
  IN IF given # <<>> THEN given ELSE uuid

\* (id || "").trim() || randomUUID(), for an id that is absent or a string
BillIdOf(body, uuid) ==
  LET trimmed == Trim(Or(body.id, Str(<<>>)).s)
  IN IF trimmed # <<>> THEN trimmed ELSE uuid

NewBill(body, billId) ==
  [id |-> billId,
   name |-> JsString(body.name),
   dueDay |-> ToNumber(body.dueDay),
   amount |-> ToNumber(Or(body.amount, Num(0))),
   notes |-> IF Truthy(body.notes) THEN JsString(body.notes) ELSE <<>>]

\* if (!name) ...; if (dueDay === undefined || Number.isNaN(Number(dueDay))) ...
CreateInvalid(body) ==
  \/ ~Truthy(body.name)
  \/ body.dueDay.k = "undefined"
  \/ ToNumber(body.dueDay).k = "nan"

IdTakenNever(bl, billId) == FALSE

\* store.bills.some((bill) => bill.id === billId) of the creation handler
IdTaken(bl, billId) == BillExists(bl, billId)

CreateBillOverwrite(st, body, uuid) ==
  IF body.parse # "ok" \/ CreateInvalid(body) THEN Answer(400, st, <<>>)
  ELSE IF Truthy(body.id) /\ body.id.k # "string" THEN Answer(500, st, <<>>)
  ELSE
    LET billId == BillIdOf(body, uuid)
    IN IF IdTaken(st.bills, billId)
         THEN Answer(409,
                      [st EXCEPT !.bills[FindIndex(st.bills, billId)] =
                                    NewBill(body, billId)],
                      billId)
         ELSE Persist(201,
                      [st EXCEPT !.bills = Append(@, NewBill(body, billId))], billId)

CreateBillLateCheck(st, body, uuid) ==
  IF body.parse # "ok" THEN Answer(400, st, <<>>)
  ELSE IF ~Truthy(body.name) THEN Answer(400, st, <<>>)
  ELSE IF Truthy(body.id) /\ body.id.k # "string" THEN Answer(500, st, <<>>)
  ELSE
    LET billId == BillIdOf(body, uuid)
        pushed == [st EXCEPT !.bills = Append(@, NewBill(body, billId))]
    IN IF IdTaken(st.bills, billId) THEN Answer(409, st, billId)
       ELSE IF CreateInvalid(body) THEN Answer(400, pushed, <<>>)
       ELSE Persist(201, pushed, billId)

\* POST /api/bills, from the parsed body to the await of persist().  uuid is
\* the value randomUUID() returns if it is called.
CreateBill(st, body, uuid) ==
  IF body.parse # "ok" THEN Answer(400, st, <<>>)
  ELSE IF CreateInvalid(body) THEN Answer(400, st, <<>>)
  \* (id || "").trim() of a truthy non-string throws a TypeError, which the
  \* catch of the request listener answers with 500
  ELSE IF Truthy(body.id) /\ body.id.k # "string" THEN Answer(500, st, <<>>)
  ELSE
    LET billId == BillIdOf(body, uuid)
    IN IF IdTaken(st.bills, billId) THEN Answer(409, st, billId)
       ELSE Persist(201,
                    [st EXCEPT !.bills = Append(@, NewBill(body, billId))], billId)

UpdateBillReplace(st, billId, body) ==
  IF body.parse # "ok" THEN Answer(400, st, billId)
  ELSE IF ~BillExists(st.bills, billId) THEN Answer(404, st, billId)
  ELSE Persist(200,
               [st EXCEPT !.bills[FindIndex(st.bills, billId)] = NewBill(body, billId)],
               billId)

UpdateBillFromFile(st, billId, body) ==
  IF body.parse # "ok" THEN Answer(400, st, billId)
  ELSE IF ~BillExists(st.bills, billId) THEN Answer(404, st, billId)
  ELSE
    LET i == FindIndex(st.bills, billId)
        b0 == IF i \in DOMAIN disk.bills THEN disk.bills[i] ELSE st.bills[i]
        b1 == IF body.name.k # "undefined"
                THEN [b0 EXCEPT !.name = JsString(body.name)] ELSE b0
        b2 == IF body.dueDay.k # "undefined"
                THEN [b1 EXCEPT !.dueDay = ToNumber(body.dueDay)] ELSE b1
        b3 == IF body.amount.k # "undefined"
                THEN [b2 EXCEPT !.amount = ToNumber(body.amount)] ELSE b2
        b4 == IF body.notes.k # "undefined"
                THEN [b3 EXCEPT !.notes =
                        IF Truthy(body.notes) THEN JsString(body.notes) ELSE <<>>]
                ELSE b3
    IN Persist(200, [st EXCEPT !.bills[i] = b4], billId)

\* PUT /api/bills/:id
UpdateBill(st, billId, body) ==
  IF body.parse # "ok" THEN Answer(400, st, billId)
  ELSE IF ~BillExists(st.bills, billId) THEN Answer(404, st, billId)
  ELSE
    LET i == FindIndex(st.bills, billId)
        b0 == st.bills[i]
        b1 == IF body.name.k # "undefined"
                THEN [b0 EXCEPT !.name = JsString(body.name)] ELSE b0
        b2 == IF body.dueDay.k # "undefined"
                THEN [b1 EXCEPT !.dueDay = ToNumber(body.dueDay)] ELSE b1
        b3 == IF body.amount.k # "undefined"
                THEN [b2 EXCEPT !.amount = ToNumber(body.amount)] ELSE b2
        b4 == IF body.notes.k # "undefined"
                THEN [b3 EXCEPT !.notes =
                        IF Truthy(body.notes) THEN JsString(body.notes) ELSE <<>>]
                ELSE b3
    IN Persist(200, [st EXCEPT !.bills[i] = b4], billId)

\* store.bills.splice(index, 1)
Splice(bl, index) ==
  SubSeq(bl, 1, index - 1) \o SubSeq(bl, index + 1, Len(bl))

\* for (const month of Object.keys(store.payments || {}))
\*   delete store.payments[month][billId];
RemoveMarks(pay, billId) == [m \in DOMAIN pay |-> pay[m] \ {billId}]

DeleteBillNoAwait(st, billId) ==
  LET index == FindIndex(st.bills, billId) IN
  IF index = 0 THEN Answer(404, st, billId)
  ELSE Answer(204,
              [st EXCEPT !.bills = Splice(@, index),
                         !.payments = RemoveMarks(@, billId)],
              billId)

\* DELETE /api/bills/:id
DeleteBill(st, billId) ==
  LET index == FindIndex(st.bills, billId) IN
  IF index = 0 THEN Answer(404, st, billId)
  ELSE Persist(204,
               [st EXCEPT !.bills = Splice(@, index),
                          !.payments = RemoveMarks(@, billId)],
               billId)

\* body?.month || startOfMonthKey(), as a property name
MonthKeyOf(body) == JsString(Or(body.month, Str(startOfMonthKey)))

\* if (!store.payments[monthKey]) store.payments[monthKey] = {};
EnsureMonth(st, monthKey) ==
  IF MonthObject(st, monthKey).kind = "undefined"
    THEN [st EXCEPT !.payments =
            [m \in DOMAIN @ \cup {monthKey} |->
               IF m \in DOMAIN @ THEN @[m] ELSE {}]]
    ELSE st

\* store.payments[monthKey][billId] = true, or delete of that property: the
\* assignment goes to the object the lookup returned.
SetMark(st, monthKey, billId, isPaid) ==
  IF MonthObject(st, monthKey).kind = "own"
    THEN [st EXCEPT !.payments[monthKey] =
            IF isPaid THEN @ \cup {billId} ELSE @ \ {billId}]
    ELSE [st EXCEPT !.proto =
            IF isPaid
              THEN [nm \in DOMAIN @ \cup {billId} |->
                      IF nm = billId THEN "true" ELSE @[nm]]
              ELSE [nm \in DOMAIN @ \ {billId} |-> @[nm]]]

TogglePaidNoCheck(st, billId, body) ==
  IF body.parse # "ok" THEN Answer(400, st, billId)
  ELSE
    LET monthKey == MonthKeyOf(body)
    IN Persist(200,
               SetMark(EnsureMonth(st, monthKey), monthKey, billId,
                       Truthy(body.isPaid)),
               billId)

\* POST /api/bills/:id/paid
TogglePaid(st, billId, body) ==
  IF body.parse # "ok" THEN Answer(400, st, billId)
  ELSE IF ~BillExists(st.bills, billId) THEN Answer(404, st, billId)
  ELSE
    LET monthKey == MonthKeyOf(body)
    IN Persist(200,
               SetMark(EnsureMonth(st, monthKey), monthKey, billId,
                       Truthy(body.isPaid)),
               billId)

TokenExistsNever(tokens, token) == FALSE

\* store.pushTokens.find((entry) => entry.token === token)
TokenExists(tokens, token) == \E i \in DOMAIN tokens : tokens[i].token = token

RegisterTokenChecked(st, body) ==
  IF body.parse # "ok" THEN Answer(400, st, <<>>)
  ELSE IF ~Truthy(body.token) THEN Answer(400, st, <<>>)
  ELSE IF ~(body.token.k = "string" /\ Head(body.token.s) = "ExponentPushToken[")
    THEN Answer(400, st, <<>>)
  ELSE IF ~TokenExists(st.pushTokens, body.token)
    THEN Persist(200,
                 [st EXCEPT !.pushTokens =
                    Append(@, [token |-> body.token,
                               platform |-> Or(body.platform, Str(<<"unknown">>))])],
                 <<>>)
    ELSE Answer(200, st, <<>>)

\* POST /api/push/register
RegisterToken(st, body) ==
  IF body.parse # "ok" THEN Answer(400, st, <<>>)
  ELSE IF ~Truthy(body.token) THEN Answer(400, st, <<>>)
  ELSE IF ~TokenExists(st.pushTokens, body.token)
    THEN Persist(200,
                 [st EXCEPT !.pushTokens =
                    Append(@, [token |-> body.token,
                               platform |-> Or(body.platform, Str(<<"unknown">>))])],
                 <<>>)
    ELSE Answer(200, st, <<>>)

\* store.pushTokens.filter((entry) => entry.token !== token)
RECURSIVE FilterOut(_, _)
FilterOut(tokens, token) ==
  IF tokens = <<>> THEN <<>>
  ELSE IF Head(tokens).token = token THEN FilterOut(Tail(tokens), token)
  ELSE <<Head(tokens)>> \o FilterOut(Tail(tokens), token)

UnregisterTokenAll(st, body) ==
  IF body.parse # "ok" THEN Answer(400, st, <<>>)
  ELSE IF ~Truthy(body.token) THEN Answer(400, st, <<>>)
  ELSE Persist(200, [st EXCEPT !.pushTokens = <<>>], <<>>)

\* POST /api/push/unregister
UnregisterToken(st, body) ==
  IF body.parse # "ok" THEN Answer(400, st, <<>>)
  ELSE IF ~Truthy(body.token) THEN Answer(400, st, <<>>)
  ELSE Persist(200, [st EXCEPT !.pushTokens = FilterOut(@, body.token)], <<>>)

isValidExpoTokenAny(token) == TRUE

\* typeof token === "string" && token.startsWith("ExponentPushToken[")
isValidExpoToken(token) ==
  token.k = "string" /\ token.s # <<>> /\ Head(token.s) = "ExponentPushToken["

\* The clock of a send-upcoming request: the day of the month and whether
\* it is midnight (half 0) or later in the day (half 1, twelve hours).
\* (due - now) / (1000 * 60 * 60 * 24) with due = new Date(year, month, dueDay)
\* at midnight; the result is kept in half days.  A dueDay that is NaN gives
\* an invalid date, whose difference compares false.
DiffHalfDays(dueDay, now) == 2 * (dueDay.n - now.day) - now.half

IsUpcomingAnyStatus(pbill, now) ==
  /\ pbill.dueDay.k = "number"
  /\ DiffHalfDays(pbill.dueDay, now) >= 0
  /\ DiffHalfDays(pbill.dueDay, now) <= 14

IsUpcoming(pbill, now) ==
  /\ pbill.dueDay.k = "number"
  /\ DiffHalfDays(pbill.dueDay, now) >= 0
  /\ DiffHalfDays(pbill.dueDay, now) <= 14
  /\ ~pbill.isPaid

\* The await of an outbound call: to the push gateway with the batch out.
CallGateway(st, out) ==
  [await |-> "push", status |-> 200, st |-> st, id |-> <<>>, out |-> out]

\* bills.filter((bill) => ...) of the send-upcoming handler
Upcoming(st, monthKey, now) ==
  LET IsDue(pbill) == IsUpcoming(pbill, now)
  IN SelectSeq(withPaymentStatus(st, monthKey), IsDue)

SendUpcomingTokensFirst(st, body, now) ==
  IF body.parse # "ok" THEN Answer(400, st, <<>>)
  ELSE
    LET monthKey == MonthKeyOf(body)
        HasFormat(entry) == isValidExpoToken(entry.token)
        upcoming == Upcoming(st, monthKey, now)
        tokens == SelectSeq(st.pushTokens, HasFormat)
        notifications ==
          [i \in DOMAIN tokens |->
             [to |-> tokens[i].token,
              bills |-> [j \in DOMAIN upcoming |-> upcoming[j].id]]]
    IN IF tokens = <<>> THEN [Answer(200, st, <<>>) EXCEPT !.out = <<"no-tokens">>]
       ELSE IF upcoming = <<>> THEN [Answer(200, st, <<>>) EXCEPT !.out = <<"no-upcoming">>]
       ELSE CallGateway(st, notifications)

\* POST /api/push/send-upcoming, to the call of the push gateway
SendUpcoming(st, body, now) ==
  IF body.parse # "ok" THEN Answer(400, st, <<>>)
  ELSE
    LET monthKey == MonthKeyOf(body)
        HasFormat(entry) == isValidExpoToken(entry.token)
        upcoming == Upcoming(st, monthKey, now)
        tokens == SelectSeq(st.pushTokens, HasFormat)
        notifications ==
          [i \in DOMAIN tokens |->
             [to |-> tokens[i].token,
              bills |-> [j \in DOMAIN upcoming |-> upcoming[j].id]]]
    IN IF upcoming = <<>> THEN [Answer(200, st, <<>>) EXCEPT !.out = <<"no-upcoming">>]
       ELSE IF tokens = <<>> THEN [Answer(200, st, <<>>) EXCEPT !.out = <<"no-tokens">>]
       ELSE CallGateway(st, notifications)

ChatNoKeyCheck(st, body, key) ==
  IF body.parse # "ok" THEN Answer(400, st, <<>>)
  ELSE IF ~Truthy(body.message) THEN Answer(400, st, <<>>)
  ELSE [await |-> "chat", status |-> 200, st |-> st, id |-> <<>>, out |-> <<>>]

\* POST /api/chat with createChatCompletion, to the call of the completion
\* service; key tells whether OPENAI_API_KEY is set.
Chat(st, body, key) ==
  IF body.parse # "ok" THEN Answer(400, st, <<>>)
  ELSE IF ~Truthy(body.message) THEN Answer(400, st, <<>>)
  ELSE IF ~key THEN [Answer(503, st, <<>>) EXCEPT !.out = <<UnavailableReply>>]
  ELSE [await |-> "chat", status |-> 200, st |-> st, id |-> <<>>, out |-> <<>>]

\* ------------------------------------------------------------------ inputs
\* The requests of the model: the ids of the paths, the JSON bodies and the
\* query months a caller sends.
PathIds == {Rent}
Uuids == {Uuid1, Uuid2, Uuid3}

\* randomUUID(): the values it returns are new and interchangeable, so the
\* model hands them out in a fixed order: uuid is the first that is not an
\* id among ids.
UuidOrder == <<Uuid1, Uuid2, Uuid3>>
randomUUID(uuid, ids) ==
  \E i \in DOMAIN UuidOrder :
    /\ UuidOrder[i] = uuid
    /\ uuid \notin ids
    /\ \A j \in 1..(i - 1) : UuidOrder[j] \in ids
BodyMonths == {Undefined, Str(June), Str(ProtoKey)}
QueryMonths == {Undefined, Str(June)}

\* Creation bodies: valid ones without an id (absent, empty, blank) over
\* the amounts absent, 4 and "x"; with the id "rent", bare and padded, with
\* the id "constructor" and with the id 7; and for the id "rent" each way
\* of failing the validation of name and dueDay.
CreateBodies ==
  RejectedBodies \cup
  {[EmptyBody EXCEPT !.id = i, !.name = Str(Gym), !.dueDay = Num(9), !.amount = a] :
     i \in {Undefined, Str(<<>>), Str(<<" ">>)},
     a \in {Undefined, Num(4)}} \cup
  {[EmptyBody EXCEPT !.name = Str(Gym), !.dueDay = Num(9), !.amount = Str(<<"x">>)]} \cup
  {[EmptyBody EXCEPT !.id = i, !.name = Str(Gym), !.dueDay = Num(9)] :
     i \in {Str(Constructor), Num(7)}} \cup
  {[EmptyBody EXCEPT !.id = i, !.name = Str(Gym), !.dueDay = Num(9), !.amount = Num(4)] :
     i \in {Str(Rent), Str(<<" ">> \o Rent \o <<" ">>)}} \cup
  {[EmptyBody EXCEPT !.id = Str(Rent), !.name = nm, !.dueDay = d, !.amount = Num(4)] :
     nm \in {Undefined, Str(<<>>), Str(Gym)},
     d \in {Undefined, Num(9), Str(<<"x">>)}}

\* Update bodies: none of the fields, a name, an empty name, a negative
\* amount, and a dueDay given as a string with notes and an id.
UpdateBodies ==
  RejectedBodies \cup
  {EmptyBody,
   [EmptyBody EXCEPT !.name = Str(<<"gas">>)],
   [EmptyBody EXCEPT !.name = Str(<<>>)],
   [EmptyBody EXCEPT !.amount = Num(0 - 5)],
   [EmptyBody EXCEPT !.id = Str(Gym), !.dueDay = Str(<<"2">>), !.notes = Str(<<"n">>)]}

ToggleBodies ==
  RejectedBodies \cup
  {[EmptyBody EXCEPT !.isPaid = p, !.month = m] :
     p \in {Bool(TRUE), Bool(FALSE)}, m \in BodyMonths}

SendBodies ==
  RejectedBodies \cup {[EmptyBody EXCEPT !.month = m] : m \in {Undefined, Str(June)}}

ChatBodies ==
  RejectedBodies \cup
  {[EmptyBody EXCEPT !.message = m] : m \in {Undefined, Str(<<>>), Str(<<"hi">>)}}

\* The instants at which a send-upcoming request reads the clock.
Clock == [day : {1, 2, 9, 10}, half : {0, 1}]

\* The statuses with which the completion service answers.
UpstreamStatuses == {200, 400, 429}

TokenBodies ==
  RejectedBodies \cup
  {[EmptyBody EXCEPT !.token = t, !.platform = pf] :
     t \in {Undefined, Str(<<>>), Str(TokenA), Str(TokenB)},
     pf \in {Undefined, Str(<<"ios">>)}}

\* ----------------------------------------------------------------- requests
\* A handler is suspended at one of its awaits: of parseJsonBody (pending),
\* or of persist() (a record of inflight, pc "write" while writeFile runs and
\* "written" once it has resolved and the handler waits to be resumed).
NoPending == [kind |-> "none", id |-> <<>>]

\* What a response carries besides its status: isPaid of a paid-toggle
\* answer, sent and reason of a send-upcoming answer, reply of a chat answer.
NoExtra == [isPaid |-> FALSE, sent |-> 0, reason |-> "", reply |-> Undefined]

NoResponse ==
  [n |-> 0, kind |-> "none", status |-> 0, id |-> <<>>,
   mutated |-> FALSE, wrote |-> FALSE, extra |-> NoExtra]

Awaiting == BagToSet(inflight)

\* A request arrives, while the run's budget of requests lasts.  Before its
\* body is parsed a handler touches nothing but its own request, so the
\* arrival commutes with every step of the other handlers: the model lets a
\* request arrive when no other request is waiting for its body.
Accepts ==
  /\ server = "listening"
  /\ pending = NoPending
  /\ nreq < budget
  /\ nreq' = nreq + 1
  /\ UNCHANGED <<budget, apiKey, server, client>>

\* persist(): JSON.stringify(store) is evaluated when persist is called, on
\* the store as the handler has just left it; writeFile then runs
\* asynchronously with that text.
persist(before, after) == Stringify(after)

\* The store of a fresh server (the seed ensureStoreFile writes), and the
\* store after POST /api/bills {"id":"rent","name":"gym","dueDay":9,"amount":4}
\* and POST /api/push/register {"token":"apns-b","platform":"ios"}.
EmptyStore == [bills |-> <<>>, payments |-> NoPayments, pushTokens |-> <<>>]

RentBill == [id |-> Rent, name |-> Gym, dueDay |-> Num(9), amount |-> Num(4),
             notes |-> <<>>]

RentStore ==
  [EmptyStore EXCEPT !.bills = <<RentBill>>,
                     !.pushTokens = <<[token |-> Str(TokenB), platform |-> Str(<<"ios">>)]>>]

\* The PushManager of a client that has just been launched: token is nil, no
\* call of the API is in flight.  Nil stands for the absent token; a token is
\* a sequence of hexadecimal digits.
Nil == <<"nil">>
NoClient == [token |-> Nil, failed |-> FALSE, calls |-> {}]

\* The server is quiescent on the store seed: the file holds it, no request
\* is in flight, Object.prototype is untouched.
StartFrom(seed) ==
  /\ bills = seed.bills
  /\ payments = seed.payments
  /\ pushTokens = seed.pushTokens
  /\ objectPrototype = ObjectPrototypeBuiltins
  /\ disk = Stringify(seed)
  /\ pending = NoPending
  /\ inflight = EmptyBag
  /\ nreq = 0
  /\ last = NoResponse
  /\ server = "listening"
  /\ client = NoClient

Init ==
  /\ \E seed \in {EmptyStore, RentStore} : StartFrom(seed)
  /\ budget = MaxRequests
  /\ apiKey = FALSE

\* The server started with the credential of the completion service.
InitAll ==
  /\ \E seed \in {EmptyStore, RentStore} : StartFrom(seed)
  /\ budget = MaxRequests
  /\ apiKey = TRUE

SetMem(st) ==
  /\ bills' = st.bills
  /\ payments' = st.payments
  /\ pushTokens' = st.pushTokens
  /\ objectPrototype' = st.proto

\* sendJson(res, status, ...): a response is sent.
Respond(kind, status, billId, mutated, wrote, extra) ==
  last' = [n |-> last.n + 1, kind |-> kind, status |-> status, id |-> billId,
           mutated |-> mutated, wrote |-> wrote, extra |-> extra]

\* A handler has run synchronously to outcome o: either it has answered, or
\* it is suspended at its await (pc "write": of persist()).
Apply(kind, month, o) ==
  /\ SetMem(o.st)
  /\ disk' = disk
  /\ IF o.await = "none"
       THEN /\ inflight' = inflight
            /\ Respond(kind, o.status, o.id, o.st # Mem, FALSE, NoExtra)
       ELSE /\ inflight' = inflight (+) SetToBag({
                   [pc |-> o.await, kind |-> kind, id |-> o.id, month |-> month,
                    snap |-> IF o.await = "write" THEN persist(Mem, o.st)
                                                  ELSE EmptyStore,
                    out |-> o.out, ok |-> o.status, mutated |-> (o.st # Mem)]})
            /\ last' = last

\* A request of a body-carrying route arrives; its handler awaits
\* parseJsonBody.
ReceiveBody(kind, billId) ==
  /\ Accepts
  /\ pending' = [kind |-> kind, id |-> billId]
  /\ UNCHANGED <<bills, payments, pushTokens, objectPrototype, disk, inflight, last>>

ReceiveCreate == ReceiveBody("create", <<>>)
ReceiveUpdate == \E billId \in PathIds : ReceiveBody("update", billId)
ReceiveToggle == \E billId \in PathIds : ReceiveBody("paid", billId)
ReceiveRegister == ReceiveBody("register", <<>>)
ReceiveUnregister == ReceiveBody("unregister", <<>>)

\* The body of the pending request of the given route has been parsed: the
\* handler runs on.
Parsed(kind) ==
  /\ server = "listening"
  /\ pending.kind = kind
  /\ pending' = NoPending
  /\ UNCHANGED <<nreq, budget, apiKey, server, client>>

CreateWith(body, uuid) ==
  /\ Parsed("create")
  /\ randomUUID(uuid, BillIds(bills))
  /\ Apply("create", <<>>, CreateBill(Mem, body, uuid))

CreateHandler == \E body \in CreateBodies, uuid \in Uuids : CreateWith(body, uuid)

UpdateWith(body) ==
  /\ Parsed("update")
  /\ Apply("update", <<>>, UpdateBill(Mem, pending.id, body))

UpdateHandler == \E body \in UpdateBodies : UpdateWith(body)

ToggleWith(body) ==
  /\ Parsed("paid")
  /\ Apply("paid", MonthKeyOf(body), TogglePaid(Mem, pending.id, body))

ToggleHandler == \E body \in ToggleBodies : ToggleWith(body)

RegisterWith(body) ==
  /\ Parsed("register")
  /\ Apply("register", <<>>, RegisterToken(Mem, body))

RegisterHandler == \E body \in TokenBodies : RegisterWith(body)

UnregisterWith(body) ==
  /\ Parsed("unregister")
  /\ Apply("unregister", <<>>, UnregisterToken(Mem, body))

UnregisterHandler == \E body \in TokenBodies : UnregisterWith(body)

ReceiveSend == ReceiveBody("send", <<>>)
ReceiveChat == ReceiveBody("chat", <<>>)

SendWith(body, now) ==
  /\ Parsed("send")
  /\ LET o == SendUpcoming(Mem, body, now) IN
       IF o.await = "none"
         THEN /\ SetMem(o.st)
              /\ disk' = disk
              /\ inflight' = inflight
              /\ Respond("send", o.status, <<>>, o.st # Mem, FALSE,
                         [NoExtra EXCEPT !.reason = IF o.out = <<>> THEN "" ELSE o.out[1]])
         ELSE Apply("send", MonthKeyOf(body), o)

SendHandler == \E body \in SendBodies, now \in Clock : SendWith(body, now)

ChatWith(body) ==
  /\ Parsed("chat")
  /\ LET o == Chat(Mem, body, apiKey) IN
       IF o.await = "none"
         THEN /\ SetMem(o.st)
              /\ disk' = disk
              /\ inflight' = inflight
              /\ Respond("chat", o.status, <<>>, o.st # Mem, FALSE,
                         [NoExtra EXCEPT !.reply = IF o.out = <<>> THEN Undefined
                                                                  ELSE Str(o.out[1])])
         ELSE Apply("chat", <<>>, o)

ChatHandler == \E body \in ChatBodies : ChatWith(body)

\* sendExpoPushNotifications returns: the gateway answered with a success
\* status.
PushOk(q) ==
  /\ server = "listening"
  /\ q.pc = "push"
  /\ inflight' = inflight (-) SetToBag({q})
  /\ Respond("send", 200, <<>>, FALSE, FALSE, [NoExtra EXCEPT !.sent = Len(q.out)])
  /\ UNCHANGED <<bills, payments, pushTokens, objectPrototype, disk, pending, nreq,
                 budget, apiKey, server, client>>

PushFailUncaught(q) ==
  /\ server = "listening"
  /\ q.pc = "push"
  /\ inflight' = inflight (-) SetToBag({q})
  /\ Respond("send", 500, <<>>, FALSE, FALSE, NoExtra)
  /\ UNCHANGED <<bills, payments, pushTokens, objectPrototype, disk, pending, nreq,
                 budget, apiKey, server, client>>

\* sendExpoPushNotifications throws: fetch rejects, or the gateway answers
\* with a non-success status.
PushFail(q) ==
  /\ server = "listening"
  /\ q.pc = "push"
  /\ inflight' = inflight (-) SetToBag({q})
  /\ Respond("send", 502, <<>>, FALSE, FALSE, NoExtra)
  /\ UNCHANGED <<bills, payments, pushTokens, objectPrototype, disk, pending, nreq,
                 budget, apiKey, server, client>>

\* createChatCompletion returns the reply or the error status of the
\* completion service.
ChatReply(q) ==
  /\ server = "listening"
  /\ q.pc = "chat"
  /\ inflight' = inflight (-) SetToBag({q})
  /\ \E status \in UpstreamStatuses :
       Respond("chat", status, <<>>, FALSE, FALSE,
               [NoExtra EXCEPT !.reply = IF status = 200 THEN Str(CompletionReply)
                                                         ELSE Undefined])
  /\ UNCHANGED <<bills, payments, pushTokens, objectPrototype, disk, pending, nreq,
                 budget, apiKey, server, client>>

\* createChatCompletion throws (fetch rejects or the reply is not JSON): the
\* handler answers 500.
ChatFail(q) ==
  /\ server = "listening"
  /\ q.pc = "chat"
  /\ inflight' = inflight (-) SetToBag({q})
  /\ Respond("chat", 500, <<>>, FALSE, FALSE, NoExtra)
  /\ UNCHANGED <<bills, payments, pushTokens, objectPrototype, disk, pending, nreq,
                 budget, apiKey, server, client>>

\* The steps of the outbound calls.
OutboundStep == \E q \in Awaiting : PushOk(q) \/ PushFail(q) \/ ChatReply(q) \/ ChatFail(q)

\* DELETE carries no body: the handler runs to persist() on arrival.
DeleteWith(billId) ==
  /\ Accepts
  /\ pending' = pending
  /\ Apply("delete", <<>>, DeleteBill(Mem, billId))

DeleteHandler == \E billId \in PathIds : DeleteWith(billId)

ListWithEnsureMonth(month) ==
  /\ Accepts
  /\ Respond("list", 200, <<>>, FALSE, FALSE, NoExtra)
  /\ payments' = EnsureMonth(Mem, JsString(Or(month, Str(startOfMonthKey)))).payments
  /\ UNCHANGED <<bills, pushTokens, objectPrototype, disk, pending, inflight>>

\* GET /api/bills?month=...: answered on arrival with the projection.
ListWith(month) ==
  /\ Accepts
  /\ Respond("list", 200, <<>>, FALSE, FALSE, NoExtra)
  /\ UNCHANGED <<bills, payments, pushTokens, objectPrototype, disk, pending, inflight>>

ListHandler == \E month \in QueryMonths : ListWith(month)

\* writeFile completes: the file holds the text persist() was called with.
WriteDone(q) ==
  /\ server = "listening"
  /\ q.pc = "write"
  /\ disk' = q.snap
  /\ inflight' = (inflight (-) SetToBag({q})) (+) SetToBag({[q EXCEPT !.pc = "written"]})
  /\ UNCHANGED <<bills, payments, pushTokens, objectPrototype, pending, nreq, budget,
                 apiKey, server, client, last>>

\* writeFile rejects: persist() throws in the handler, and the catch of the
\* request listener answers 500.
WriteFail(q) ==
  /\ server = "listening"
  /\ q.pc = "write"
  /\ inflight' = inflight (-) SetToBag({q})
  /\ Respond(q.kind, 500, q.id, q.mutated, FALSE, NoExtra)
  /\ UNCHANGED <<bills, payments, pushTokens, objectPrototype, disk, pending, nreq,
                 budget, apiKey, server, client>>

\* The handler resumes after await persist() and sends its success response.
Resume(q) ==
  /\ server = "listening"
  /\ q.pc = "written"
  /\ inflight' = inflight (-) SetToBag({q})
  /\ Respond(q.kind, q.ok, q.id, q.mutated, TRUE,
             [NoExtra EXCEPT !.isPaid = q.kind = "paid" /\ PaidLookup(Mem, q.month, q.id)])
  /\ UNCHANGED <<bills, payments, pushTokens, objectPrototype, disk, pending, nreq,
                 budget, apiKey, server, client>>

\* The steps of persist(), common to every mutating handler.
PersistStep == \E q \in Awaiting : WriteDone(q) \/ WriteFail(q) \/ Resume(q)

\* The bill and payment routes.
Next ==
  \/ ReceiveCreate
  \/ ReceiveUpdate
  \/ ReceiveToggle
  \/ CreateHandler
  \/ UpdateHandler
  \/ ToggleHandler
  \/ DeleteHandler
  \/ ListHandler
  \/ PersistStep

Spec == Init /\ [][Next]_vars

\* The push-token routes.
NextPush ==
  \/ ReceiveRegister
  \/ ReceiveUnregister
  \/ RegisterHandler
  \/ UnregisterHandler
  \/ PersistStep

SpecPush == Init /\ [][NextPush]_vars

\* Every route.
NextAll ==
  \/ Next
  \/ NextPush
  \/ ReceiveSend
  \/ ReceiveChat
  \/ SendHandler
  \/ ChatHandler
  \/ OutboundStep

SpecAll == InitAll /\ [][NextAll]_vars

\* The steps of the call of the push gateway.
PushStep == \E q \in Awaiting : PushOk(q) \/ PushFail(q)

\* The routes send-upcoming depends on: the paid-toggle, which decides what
\* is unpaid, the registration, which decides who is notified, and
\* send-upcoming itself.
NextSend ==
  \/ ReceiveToggle
  \/ ReceiveRegister
  \/ ReceiveSend
  \/ ToggleHandler
  \/ RegisterHandler
  \/ SendHandler
  \/ PersistStep
  \/ PushStep

SpecSend == Init /\ [][NextSend]_vars

\* The steps of the call of the completion service.
ChatStep == \E q \in Awaiting : ChatReply(q) \/ ChatFail(q)

\* A request no route matches (another path, or another method on a path of
\* the API): the listener reads nothing of the body and answers 404.
FallbackWith(body) ==
  /\ Accepts
  /\ Respond("fallback", 404, <<>>, FALSE, FALSE, NoExtra)
  /\ UNCHANGED <<bills, payments, pushTokens, objectPrototype, disk, pending, inflight>>

FallbackHandler == \E body \in RejectedBodies \cup {EmptyBody} : FallbackWith(body)

\* The routes that read the store (the listing, send-upcoming, the chat) and
\* the fallback, with the routes that decide what send-upcoming reads; the
\* server runs with or without the credential of the completion service.
InitRead ==
  /\ \E seed \in {EmptyStore, RentStore} : StartFrom(seed)
  /\ budget = MaxRequests
  /\ apiKey \in BOOLEAN

NextRead ==
  \/ NextSend
  \/ ReceiveChat
  \/ ChatHandler
  \/ ChatStep
  \/ ListHandler
  \/ FallbackHandler

SpecRead == InitRead /\ [][NextRead]_vars

\* The steps of persist() on a file system that takes every write.
WriteStep == \E q \in Awaiting : WriteDone(q) \/ Resume(q)

\* The update route alone, with writes that do not fail: every update of a
\* stored bill is answered 200.
NextUpdates ==
  \/ ReceiveUpdate
  \/ UpdateHandler
  \/ WriteStep

SpecUpdates == Init /\ [][NextUpdates]_vars

\* The store after POST /api/bills/rent/paid {"isPaid":true,"month":"2024-06"}
\* on RentStore, and the server after that request alone or followed by
\* POST /api/bills/rent/paid {"isPaid":true,"month":"__proto__"}, which
\* writes its mark on Object.prototype and leaves the file as it was.
MarkedStore == [RentStore EXCEPT !.payments = [m \in {June} |-> {Rent}]]

InitMarked ==
  /\ bills = MarkedStore.bills
  /\ payments = MarkedStore.payments
  /\ pushTokens = MarkedStore.pushTokens
  /\ objectPrototype \in
       {ObjectPrototypeBuiltins,
        SetMark([bills |-> MarkedStore.bills, payments |-> MarkedStore.payments,
                 pushTokens |-> MarkedStore.pushTokens,
                 proto |-> ObjectPrototypeBuiltins],
                ProtoKey, Rent, TRUE).proto}
  /\ disk = Stringify(MarkedStore)
  /\ pending = NoPending
  /\ inflight = EmptyBag
  /\ nreq = 0
  /\ last = NoResponse
  /\ server = "listening"
  /\ client = NoClient
  /\ budget = MaxRequests
  /\ apiKey = FALSE

\* The routes that delete a bill, create one and mark one paid.
NextRecreate ==
  \/ DeleteHandler
  \/ ReceiveCreate
  \/ CreateHandler
  \/ ReceiveToggle
  \/ ToggleHandler
  \/ PersistStep

SpecRecreate == InitMarked /\ [][NextRecreate]_vars

\* --------------------------------------------------------------- iOS client
\* bills.sorted { $0.dueDay < $1.dueDay }: each bill is put before the first
\* bill it is due before.
RECURSIVE InsertByDueDay(_, _)
InsertByDueDay(sorted, pbill) ==
  IF sorted = <<>> THEN <<pbill>>
  ELSE IF pbill.dueDay.n < Head(sorted).dueDay.n THEN <<pbill>> \o sorted
  ELSE <<Head(sorted)>> \o InsertByDueDay(Tail(sorted), pbill)

RECURSIVE SortedByDueDay(_)
SortedByDueDay(pbills) ==
  IF pbills = <<>> THEN <<>>
  ELSE InsertByDueDay(SortedByDueDay(SubSeq(pbills, 1, Len(pbills) - 1)),
                      pbills[Len(pbills)])

\* BillsViewModel.upcomingBills on the bills the client has fetched (the
\* projection of a month; a bill whose dueDay is no integer does not decode):
\* the bills whose due date in the month of now lies from now to 7 days after
\* now, by dueDay.
upcomingBills(pbills, now) ==
  LET InRange(pbill) ==
        /\ pbill.dueDay.k = "number"
        /\ DiffHalfDays(pbill.dueDay, now) >= 0
        /\ DiffHalfDays(pbill.dueDay, now) <= 14
  IN SortedByDueDay(SelectSeq(pbills, InRange))

\* String(format: "%02x", byte): the two hexadecimal digits of a byte.
HexDigits == <<"0", "1", "2", "3", "4", "5", "6", "7", "8", "9",
               "a", "b", "c", "d", "e", "f">>

\* deviceToken.map { String(format: "%02x", $0) }.joined()
RECURSIVE HexString(_)
HexString(data) ==
  IF data = <<>> THEN <<>>
  ELSE <<HexDigits[(Head(data) \div 16) + 1], HexDigits[(Head(data) % 16) + 1]>>
       \o HexString(Tail(data))

\* The device tokens APNs hands to the application, as bytes.
DeviceTokens == {<<161, 11>>, <<5>>}

\* The body of the request of a call of the API: PushRegistrationRequest
\* with the token and, for a registration, the platform "ios".
BodyOfCall(call) ==
  [EmptyBody EXCEPT !.token = Str(call.token),
                    !.platform = IF call.op = "register" THEN Str(<<"ios">>)
                                                         ELSE Undefined]

\* PushManager.registerDeviceToken(token), to its await: nothing is done for
\* the token already held; otherwise the token is recorded and the
\* registration call begins.  A call is begun while the run's budget of
\* requests has room for it.
registerDeviceToken(token) ==
  /\ client.token # token
  /\ nreq + Cardinality(client.calls) < budget
  /\ client' = [client EXCEPT !.token = token,
                              !.calls = @ \cup {[op |-> "register", token |-> token]}]
  /\ UNCHANGED <<bills, payments, pushTokens, objectPrototype, disk, pending, inflight,
                 nreq, budget, apiKey, server, last>>

\* BillsAppDelegate: APNs has registered the device; the token is handed to
\* the PushManager as a hexadecimal string.
DidRegisterForRemoteNotifications ==
  \E deviceToken \in DeviceTokens : registerDeviceToken(HexString(deviceToken))

\* PushManager.unregister(), to its await: the unregistration call begins
\* for the token held.
ClientUnregister ==
  /\ client.token # Nil
  /\ nreq + Cardinality(client.calls) < budget
  /\ client' = [client EXCEPT
                  !.calls = @ \cup {[op |-> "unregister", token |-> client.token]}]
  /\ UNCHANGED <<bills, payments, pushTokens, objectPrototype, disk, pending, inflight,
                 nreq, budget, apiKey, server, last>>

\* The continuation of the PushManager after its call: an unregistration
\* that returned clears the token, a call that threw sets status to failed.
AfterCall(call, threw) ==
  [client EXCEPT !.calls = @ \ {call},
                 !.failed = IF threw THEN TRUE ELSE @,
                 !.token = IF ~threw /\ call.op = "unregister" THEN Nil ELSE @]

\* URLSession throws before the request reaches the server (no connection,
\* time-out): the call throws in the PushManager.
CallThrows(call) ==
  /\ call \in client.calls
  /\ client' = AfterCall(call, TRUE)
  /\ UNCHANGED <<bills, payments, pushTokens, objectPrototype, disk, pending, inflight,
                 nreq, budget, apiKey, server, last>>

\* The request of a call reaches the server, whose handler runs with no
\* other request in between: it answers at once, or the write of persist()
\* completes and it answers 200, or the write fails and it answers 500.  The
\* call returns for a status from 200 to 299 and throws for another.
CallServed(call, writes) ==
  /\ call \in client.calls
  /\ server = "listening"
  /\ pending = NoPending
  /\ nreq < budget
  /\ nreq' = nreq + 1
  /\ LET o == IF call.op = "register" THEN RegisterToken(Mem, BodyOfCall(call))
                                        ELSE UnregisterToken(Mem, BodyOfCall(call))
         status == IF o.await = "write" /\ ~writes THEN 500 ELSE o.status
     IN /\ SetMem(o.st)
        /\ disk' = IF o.await = "write" /\ writes THEN persist(Mem, o.st) ELSE disk
        /\ Respond(call.op, status, <<>>, o.st # Mem, o.await = "write" /\ writes, NoExtra)
        /\ client' = AfterCall(call, status \notin 200..299)
  /\ UNCHANGED <<pending, inflight, budget, apiKey, server>>

ClientCallStep ==
  \E call \in client.calls : CallThrows(call) \/ CallServed(call, TRUE) \/ CallServed(call, FALSE)

\* The PushManager of one client with the push-token routes it calls, and
\* send-upcoming.
NextClient ==
  \/ DidRegisterForRemoteNotifications
  \/ ClientUnregister
  \/ ClientCallStep
  \/ ReceiveSend
  \/ SendHandler

SpecClient == Init /\ [][NextClient]_vars

\* ------------------------------------------------------------------ startup
\* The store file before the server starts: missing, not JSON, or a store
\* document.
Absent == [file |-> "absent"]
Corrupt == [file |-> "corrupt"]

\* JSON.parse of a store document: the object with the properties written.
JsonParse(doc) ==
  [bills |-> doc.bills, payments |-> doc.payments, pushTokens |-> doc.pushTokens,
   proto |-> ObjectPrototypeBuiltins]

\* The module has not yet assigned store; nothing is received before listen.
InitStart ==
  /\ bills = <<>>
  /\ payments = NoPayments
  /\ pushTokens = <<>>
  /\ objectPrototype = ObjectPrototypeBuiltins
  /\ disk \in {Absent, Corrupt, Stringify(EmptyStore), Stringify(RentStore)}
  /\ pending = NoPending
  /\ inflight = EmptyBag
  /\ nreq = 0
  /\ last = NoResponse
  /\ server = "starting"
  /\ client = NoClient
  /\ budget = MaxRequests
  /\ apiKey = FALSE

\* ensureStoreFile reads and parses the file; the module assigns store and
\* goes on to listen.
LoadStore ==
  /\ server = "starting"
  /\ disk \notin {Absent, Corrupt}
  /\ SetMem(JsonParse(disk))
  /\ server' = "listening"
  /\ UNCHANGED <<disk, pending, inflight, nreq, budget, apiKey, client, last>>

LoadMissingAnyError ==
  /\ server = "starting"
  /\ disk \in {Absent, Corrupt}
  /\ server' = "seeding"
  /\ UNCHANGED <<bills, payments, pushTokens, objectPrototype, disk, pending, inflight,
                 nreq, budget, apiKey, client, last>>

\* readFile rejects with ENOENT: ensureStoreFile goes on to write the seed.
LoadMissing ==
  /\ server = "starting"
  /\ disk = Absent
  /\ server' = "seeding"
  /\ UNCHANGED <<bills, payments, pushTokens, objectPrototype, disk, pending, inflight,
                 nreq, budget, apiKey, client, last>>

\* JSON.parse throws, or readFile rejects with another code than ENOENT:
\* ensureStoreFile rethrows, the top-level await rejects and the process ends
\* before createServer.
LoadFault ==
  /\ server = "starting"
  /\ disk # Absent
  /\ server' = "failed"
  /\ UNCHANGED <<bills, payments, pushTokens, objectPrototype, disk, pending, inflight,
                 nreq, budget, apiKey, client, last>>

\* writeFile of the seed completes: the file holds the seed, ensureStoreFile
\* returns it and the module goes on to listen.
SeedWritten ==
  /\ server = "seeding"
  /\ LET seed == EmptyStore IN
       /\ disk' = Stringify(seed)
       /\ SetMem([bills |-> seed.bills, payments |-> seed.payments,
                  pushTokens |-> seed.pushTokens, proto |-> objectPrototype])
  /\ server' = "listening"
  /\ UNCHANGED <<pending, inflight, nreq, budget, apiKey, client, last>>

\* writeFile of the seed rejects: the process ends.
SeedWriteFail ==
  /\ server = "seeding"
  /\ server' = "failed"
  /\ UNCHANGED <<bills, payments, pushTokens, objectPrototype, disk, pending, inflight,
                 nreq, budget, apiKey, client, last>>

StartStep == LoadStore \/ LoadMissing \/ LoadFault \/ SeedWritten \/ SeedWriteFail

\* The start of the process, then the push-token routes.
NextStart ==
  \/ StartStep
  \/ NextPush

SpecStart == InitStart /\ [][NextStart]_vars

\* ------------------------------------------------------- the request target
\* new URL(req.url, "http://" + host) throws before the try block of the
\* listener (a request target such as "//", or a Host header that is no
\* host): the promise of the listener rejects and nothing handles it.  The
\* request is never answered; the process ends, taking the handlers in
\* flight with it, or goes on, as the handling of unhandled rejections of
\* the runtime decides.
ReceiveBadTarget ==
  /\ server = "listening"
  /\ pending = NoPending
  /\ nreq < budget
  /\ nreq' = nreq + 1
  /\ server' \in {"crashed", "listening"}
  /\ UNCHANGED <<bills, payments, pushTokens, objectPrototype, disk, pending, inflight,
                 budget, apiKey, client, last>>

\* The push-token routes and the requests whose target does not parse.
NextLive ==
  \/ NextPush
  \/ ReceiveBadTarget

\* Once a body has arrived its handler runs, a write completes or fails, and
\* a handler whose write completed is resumed; a client need not send.
SpecLive ==
  /\ Init
  /\ [][NextLive]_vars
  /\ WF_vars(RegisterHandler)
  /\ WF_vars(UnregisterHandler)
  /\ WF_vars(PersistStep)

\* ------------------------------------------------------------------ claims
StoreUnchanged == UNCHANGED <<bills, payments, pushTokens, objectPrototype>>

\* A persist() call is made in the step with the text q.snap.
Issues(q) ==
  q.pc = "write" /\ CopiesIn(q, inflight') > CopiesIn(q, inflight)

\* No persist() call is made in the step.
NoWriteIssued == \A q \in BagToSet(inflight') : ~Issues(q)

\* The handler of the given route runs in the step, from its parsed body on.
Runs(kind) == pending.kind = kind /\ pending' = NoPending

\* A response is sent in the step.
Answered(status) == last'.n = last.n + 1 /\ last'.status = status

\* The month keys under which the store's payment object answers a lookup.
MonthKeys == DOMAIN payments \cup {ProtoKey}

\* C1: in every reachable state, no month's payment-mark set holds a bill id
\* that is absent from the bill list.
C1_NoMarkWithoutBill ==
  \A month \in MonthKeys : MonthObject(Mem, month).marks \subseteq BillIds(bills)

\* C2: in every reachable state no two bills of the store have the same id,
\* also while two creation requests with the same id are in flight.
C2_UniqueIds ==
  \A i, j \in DOMAIN bills : bills[i].id = bills[j].id => i = j

\* A creation of an id was refused while another creation of the same id
\* was still waiting for its durable write.
C2_Witness ==
  /\ last.kind = "create" /\ last.status = 409
  /\ \E q \in Awaiting : q.kind = "create" /\ q.pc = "write" /\ q.id = last.id
  /\ BillExists(bills, last.id)

\* The creation request carries body and names an id, after trimming, that a
\* bill of the store has.
CreatesTakenId(body, uuid) ==
  /\ body.parse = "ok"
  /\ body.id.k = "string"
  /\ Trim(body.id.s) \in BillIds(bills)
  /\ CreateWith(body, uuid)

ConflictLeavesAll ==
  /\ Answered(409)
  /\ StoreUnchanged
  /\ disk' = disk
  /\ NoWriteIssued

\* C3 as stated: every creation request whose trimmed id is the id of a
\* stored bill is answered 409 and changes neither the store nor the file.
C3_Original ==
  [][Runs("create") =>
       \A body \in CreateBodies, uuid \in Uuids :
         CreatesTakenId(body, uuid) => ConflictLeavesAll]_vars

\* C3 (amended): a creation request with a non-empty name and a numeric
\* dueDay whose trimmed id is the id of a stored bill is answered 409, and
\* the bills, the marks, the tokens and the file are unchanged and no durable
\* write is issued.
C3_ConflictLeavesStore ==
  [][Runs("create") =>
       \A body \in CreateBodies, uuid \in Uuids :
         CreatesTakenId(body, uuid) /\ ~CreateInvalid(body) => ConflictLeavesAll]_vars

\* A creation of the id of a stored bill was answered 409; the store holds
\* that bill and a registered token.
C3_Witness ==
  /\ last.kind = "create" /\ last.status = 409
  /\ BillExists(bills, last.id)
  /\ pushTokens # <<>>

\* The months and the bill ids whose paid status the frame of C4 looks at.
FrameMonths == {May, June, ProtoKey}
FrameIds ==
  BillIds(bills) \cup PathIds

\* C4: a paid-toggle for bill b and month M changes the paid status of no
\* other pair of a month and a bill, and changes neither the bill list nor
\* the token list.
C4_ToggleFrame ==
  [][Runs("paid") =>
       \A body \in ToggleBodies :
         body.parse = "ok" /\ ToggleWith(body) =>
           /\ bills' = bills
           /\ pushTokens' = pushTokens
           /\ \A month \in FrameMonths, billId \in FrameIds :
                <<month, billId>> # <<MonthKeyOf(body), pending.id>> =>
                  PaidLookup(Mem', month, billId) = PaidLookup(Mem, month, billId)]_vars

\* C5: for every month key the projection has one entry per stored bill, in
\* the store's order, and an entry is paid exactly if the month's set holds a
\* mark for its id.  (Stated for the states in which Object.prototype is as
\* at startup.)
C5_ProjectionMatchesMarks ==
  objectPrototype = ObjectPrototypeBuiltins =>
    \A month \in {May, June} :
      LET pb == withPaymentStatus(Mem, month) IN
      /\ Len(pb) = Len(bills)
      /\ \A i \in DOMAIN bills :
           /\ pb[i].id = bills[i].id
           /\ pb[i].isPaid <=> bills[i].id \in MonthObject(Mem, month).marks

SuccessStatuses == {200, 201, 204}

\* The write of q completes in the step.
Completes(q) ==
  /\ q.pc = "write"
  /\ CopiesIn(q, inflight') < CopiesIn(q, inflight)
  /\ CopiesIn([q EXCEPT !.pc = "written"], inflight') >
       CopiesIn([q EXCEPT !.pc = "written"], inflight)

\* C6: a success response to a request that mutated the store is sent only
\* after the request's durable write has completed; the text of the write is
\* the store as the request's mutation left it, and it is in the file when the
\* write completes.
C6_AckAfterWrite ==
  /\ [](last.status \in SuccessStatuses /\ last.mutated => last.wrote)
  /\ [][/\ \A q \in BagToSet(inflight') : Issues(q) => q.snap = Stringify(Mem')
        /\ \A q \in Awaiting : Completes(q) => disk' = q.snap]_vars

\* A creation was answered 201 after its write.
C6_Witness ==
  last.kind = "create" /\ last.status = 201 /\ last.mutated /\ last.wrote

NotFoundLeavesAll ==
  /\ Answered(404)
  /\ StoreUnchanged
  /\ disk' = disk
  /\ NoWriteIssued

\* C7 as stated: every update, paid-toggle or delete request that names an id
\* absent from the bill list is answered 404 and changes nothing.
C7_Original ==
  [][/\ Runs("update") /\ ~BillExists(bills, pending.id) => NotFoundLeavesAll
     /\ Runs("paid") /\ ~BillExists(bills, pending.id) => NotFoundLeavesAll
     /\ \A billId \in PathIds :
          ~BillExists(bills, billId) /\ DeleteWith(billId) => NotFoundLeavesAll]_vars

\* C7 (amended): an update or paid-toggle request whose body parses, or a
\* delete request, that names an id absent from the bill list is answered 404
\* and leaves the store and the file unchanged, with no write issued.
C7_UnknownIdNotFound ==
  [][/\ Runs("update") /\ ~BillExists(bills, pending.id) =>
          \A body \in UpdateBodies :
            body.parse = "ok" /\ UpdateWith(body) => NotFoundLeavesAll
     /\ Runs("paid") /\ ~BillExists(bills, pending.id) =>
          \A body \in ToggleBodies :
            body.parse = "ok" /\ ToggleWith(body) => NotFoundLeavesAll
     /\ \A billId \in PathIds :
          ~BillExists(bills, billId) /\ DeleteWith(billId) => NotFoundLeavesAll]_vars

\* Bill rent of the seeded store has been deleted, the delete is in the
\* file, and a paid-toggle for rent has then been answered 404.
C7_Witness ==
  /\ last.kind = "paid" /\ last.status = 404 /\ last.id = Rent
  /\ pushTokens # <<>>
  /\ ~BillExists(bills, Rent)
  /\ disk.bills = <<>>
  /\ \A month \in MonthKeys : Rent \notin MonthObject(Mem, month).marks

\* C8: a request answered 400 leaves the store and the file as they were
\* and issues no write.
C8_BadRequestLeavesStore ==
  [][Answered(400) => StoreUnchanged /\ disk' = disk /\ NoWriteIssued]_vars

\* A creation was answered 400 by a server whose store holds a bill.
C8_Witness ==
  last.kind = "create" /\ last.status = 400 /\ bills # <<>>

\* The sum of the amounts of the bills at the positions idx.
RECURSIVE SumAmounts(_)
SumAmounts(idx) ==
  IF idx = {} THEN 0
  ELSE LET i == CHOOSE i \in idx : TRUE
       IN bills[i].amount.n + SumAmounts(idx \ {i})

IntegerAmounts == \A i \in DOMAIN bills : bills[i].amount.k = "number"

\* C9: for every month, total is the sum of all amounts, paid the sum of the
\* amounts of the bills projected as paid, remaining = total - paid, and
\* paid <= total when no amount is negative.
C9_Totals ==
  IntegerAmounts =>
    \A month \in FrameMonths :
      LET t == totalsForMonth(Mem, month)
          pb == withPaymentStatus(Mem, month)
      IN /\ t.total = Num(SumAmounts(DOMAIN bills))
         /\ t.paid = Num(SumAmounts({i \in DOMAIN bills : pb[i].isPaid}))
         /\ t.remaining.n = t.total.n - t.paid.n
         /\ (\A i \in DOMAIN bills : bills[i].amount.n >= 0) => t.paid.n <= t.total.n

\* Two bills with positive amounts, one of them paid in the current month.
C9_Witness ==
  /\ Len(bills) = 2
  /\ \A i \in DOMAIN bills : bills[i].amount.k = "number" /\ bills[i].amount.n > 0
  /\ totalsForMonth(Mem, May).paid.n > 0
  /\ totalsForMonth(Mem, May).remaining.n > 0

\* C10: the token list holds at most one registration per token; the
\* registration of a stored token is answered 200 and leaves the token list
\* as it is.
C10_OneRegistrationPerToken ==
  /\ [](\A i, j \in DOMAIN pushTokens :
          pushTokens[i].token = pushTokens[j].token => i = j)
  /\ [][Runs("register") =>
          \A body \in TokenBodies :
            /\ body.parse = "ok"
            /\ Truthy(body.token)
            /\ TokenExists(pushTokens, body.token)
            /\ RegisterWith(body)
            => Answered(200) /\ pushTokens' = pushTokens]_vars

\* A registration of a token was answered 200 without a write while the
\* registration that stored the token was still waiting for its write.
C10_Witness ==
  /\ last.kind = "register" /\ last.status = 200 /\ ~last.mutated
  /\ \E q \in Awaiting : q.kind = "register" /\ q.pc = "write" /\ q.mutated
  /\ pushTokens # <<>>

\* The creation body carries no id, or an empty or whitespace-only one.
NoIdGiven(body) ==
  body.id.k = "undefined" \/ (body.id.k = "string" /\ Trim(body.id.s) = <<>>)

\* The step appends one bill, with the generated id uuid, and calls persist()
\* in a handler that will answer 201 with that id.
CreatesGenerated(uuid) ==
  /\ uuid # <<>>
  /\ uuid \notin BillIds(bills)
  /\ Len(bills') = Len(bills) + 1
  /\ SubSeq(bills', 1, Len(bills)) = bills
  /\ bills'[Len(bills')].id = uuid
  /\ \E q \in BagToSet(inflight') :
       Issues(q) /\ q.kind = "create" /\ q.ok = 201 /\ q.id = uuid

\* The handler q resumes after its write in the step.
Resumes(q) ==
  q.pc = "written" /\ CopiesIn(q, inflight') < CopiesIn(q, inflight)

\* C11: a creation without an id (or with an empty or whitespace-only id)
\* and with valid name and dueDay appends a bill whose id is generated,
\* non-empty and different from every id of the store, and is answered 201
\* with that id once its write has completed; this holds as well for a
\* second identical request.
C11_GeneratedId ==
  [][/\ Runs("create") =>
          \A body \in CreateBodies, uuid \in Uuids :
            /\ body.parse = "ok"
            /\ NoIdGiven(body)
            /\ ~CreateInvalid(body)
            /\ CreateWith(body, uuid)
            => CreatesGenerated(uuid)
     /\ \A q \in Awaiting :
          q.kind = "create" /\ Resumes(q) =>
            Answered(201) /\ last'.id = q.id /\ q.id # <<>>]_vars

\* Two creations without an id have been answered; the store and the file
\* hold two bills that differ in their generated ids only.
C11_Witness ==
  /\ Len(bills) = 2
  /\ bills[1].id \in Uuids /\ bills[2].id \in Uuids
  /\ bills[1].id # bills[2].id
  /\ [bills[1] EXCEPT !.id = <<>>] = [bills[2] EXCEPT !.id = <<>>]
  /\ last.kind = "create" /\ last.status = 201 /\ last.n = 2
  /\ disk = Stringify(Mem)

\* The field of a bill is as it was unless the body supplies it.
KeepsUnsupplied(body, old, new) ==
  /\ new.id = old.id
  /\ body.name.k = "undefined" => new.name = old.name
  /\ body.dueDay.k = "undefined" => new.dueDay = old.dueDay
  /\ body.amount.k = "undefined" => new.amount = old.amount
  /\ body.notes.k = "undefined" => new.notes = old.notes

\* C12: an update of a stored bill b changes none of b's fields but those
\* among name, dueDay, amount and notes that the body supplies; b keeps its
\* id and its position, every other bill, the payment marks and the token
\* list are unchanged.
C12_UpdateFrame ==
  [][Runs("update") /\ BillExists(bills, pending.id) =>
       \A body \in UpdateBodies :
         body.parse = "ok" /\ UpdateWith(body) =>
           /\ Len(bills') = Len(bills)
           /\ \A j \in DOMAIN bills :
                IF bills[j].id = pending.id
                  THEN KeepsUnsupplied(body, bills[j], bills'[j])
                  ELSE bills'[j] = bills[j]
           /\ UNCHANGED <<payments, pushTokens, objectPrototype>>]_vars

\* An update of the name of rent has been answered 200: rent has the new
\* name at its position and its amount, dueDay and notes of before, next to
\* a second bill.
C12_Witness ==
  /\ last.kind = "update" /\ last.status = 200 /\ last.id = Rent
  /\ Len(bills) = 2
  /\ bills[1] = [RentBill EXCEPT !.name = <<"gas">>]
  /\ bills[2].name = Gym

\* Every request received has been answered and the file holds the store:
\* the state after a sequence of requests whose writes succeeded.
Settled ==
  /\ pending = NoPending
  /\ inflight = EmptyBag
  /\ disk = Stringify(Mem)

\* C13: after any sequence of successful create and update requests, every
\* bill of the store has a non-empty name.
C13_NamesNonEmpty ==
  Settled => \A i \in DOMAIN bills : bills[i].name # <<>>

\* C14: after any sequence of successful create and update requests, every
\* bill of the store has an amount that is not negative.
C14_AmountsNonNegative ==
  Settled =>
    \A i \in DOMAIN bills : bills[i].amount.k = "number" => bills[i].amount.n >= 0

\* C15: a creation that succeeds stores the amount 0 when the body's amount
\* is absent and when it is present but not numeric.
C15_AmountDefault ==
  [][Runs("create") =>
       \A body \in CreateBodies, uuid \in Uuids :
         /\ body.parse = "ok"
         /\ body.amount.k = "undefined" \/ ToNumber(body.amount).k = "nan"
         /\ CreateWith(body, uuid)
         /\ Len(bills') = Len(bills) + 1
         => bills'[Len(bills')].amount = Num(0)]_vars

\* The due date of dueDay in the month of now is at or after now and at most
\* seven days after it (instants counted in half days from the start of the
\* month).
InWindow(dueDay, now) ==
  /\ dueDay.k = "number"
  /\ 2 * dueDay.n >= 2 * now.day + now.half
  /\ 2 * dueDay.n <= 2 * (now.day + 7) + now.half

\* The ids of the bills that are unpaid in month and due within the window,
\* in the order of the store.
ExpectedUpcoming(month, now) ==
  LET Wanted(bill) == ~PaidLookup(Mem, month, bill.id) /\ InWindow(bill.dueDay, now)
      sel == SelectSeq(bills, Wanted)
  IN [j \in DOMAIN sel |-> sel[j].id]

UpcomingIds(month, now) ==
  LET sel == Upcoming(Mem, month, now) IN [j \in DOMAIN sel |-> sel[j].id]

\* C16: the upcoming selection of a send-upcoming request holds exactly the
\* bills that are unpaid in the target month and whose due date in the month
\* of the reference date lies from 0 to 7 days after the reference date; a
\* paid bill and a bill whose dueDay has passed are not selected.
C16_UpcomingSelection ==
  [][Runs("send") =>
       \A body \in SendBodies, now \in Clock :
         body.parse = "ok" /\ SendWith(body, now) =>
           LET month == MonthKeyOf(body) IN
           /\ UpcomingIds(month, now) = ExpectedUpcoming(month, now)
           /\ \A j \in DOMAIN bills :
                \/ PaidLookup(Mem, month, bills[j].id)
                \/ (bills[j].dueDay.k = "number" /\ bills[j].dueDay.n < now.day)
                => \A i \in DOMAIN UpcomingIds(month, now) :
                     UpcomingIds(month, now)[i] # bills[j].id
           /\ ExpectedUpcoming(month, now) = <<>> <=>
                Answered(200) /\ last'.extra.reason = "no-upcoming"]_vars

\* A send-upcoming request has been answered for a store in which rent, due
\* on day 9, is paid in the current month and unpaid in the next: on day 9 at
\* midnight rent is selected for the next month and not for the current one,
\* and at noon for neither.
C16_Witness ==
  /\ last.kind = "send" /\ last.status = 200
  /\ BillExists(bills, Rent)
  /\ PaidLookup(Mem, May, Rent) /\ ~PaidLookup(Mem, June, Rent)
  /\ UpcomingIds(May, [day |-> 9, half |-> 0]) = <<>>
  /\ UpcomingIds(June, [day |-> 9, half |-> 0]) = <<Rent>>
  /\ UpcomingIds(June, [day |-> 9, half |-> 1]) = <<>>

\* The stored registrations whose token has the expected format.
ValidTokens ==
  LET HasFormat(entry) ==
        entry.token.k = "string" /\ entry.token.s # <<>>
        /\ Head(entry.token.s) = "ExponentPushToken["
  IN SelectSeq(pushTokens, HasFormat)

\* An outbound call to the push gateway is made in the step.
CallsGateway ==
  \E q \in BagToSet(inflight') :
    q.pc = "push" /\ CopiesIn(q, inflight') > CopiesIn(q, inflight)

\* The step answers 200 with sent 0 and the reason, and calls no gateway.
ShortCircuits(reason) ==
  /\ Answered(200)
  /\ last'.extra.sent = 0
  /\ last'.extra.reason = reason
  /\ ~CallsGateway

\* C17: a send-upcoming request with an empty selection is answered 200 with
\* sent 0 and reason no-upcoming whatever the registered tokens; with a
\* non-empty selection and no stored token of the expected format it is
\* answered 200 with sent 0 and reason no-tokens; neither calls the gateway.
C17_ShortCircuit ==
  [][Runs("send") =>
       \A body \in SendBodies, now \in Clock :
         body.parse = "ok" /\ SendWith(body, now) =>
           LET selection == ExpectedUpcoming(MonthKeyOf(body), now) IN
           /\ selection = <<>> => ShortCircuits("no-upcoming")
           /\ selection # <<>> /\ ValidTokens = <<>> => ShortCircuits("no-tokens")]_vars

\* A send-upcoming request was answered with reason no-tokens by a server
\* that holds a bill and a registration of another format only.
C17_Witness ==
  /\ last.kind = "send" /\ last.status = 200
  /\ last.extra.sent = 0 /\ last.extra.reason = "no-tokens"
  /\ bills # <<>>
  /\ pushTokens # <<>> /\ ValidTokens = <<>>

\* The handler q, awaiting the push gateway, is answered in the step.
GatewayReturns(q) ==
  q.pc = "push" /\ CopiesIn(q, inflight') < CopiesIn(q, inflight)

\* C18: with a non-empty selection and a stored token of the expected
\* format, send-upcoming makes one gateway call, whose batch holds one
\* notification for each stored token of the expected format, in their
\* order, and none for another token, each listing all selected bill ids;
\* a success is answered with sent equal to the size of the batch.
C18_OneBatch ==
  [][/\ Runs("send") =>
          \A body \in SendBodies, now \in Clock :
            /\ body.parse = "ok"
            /\ ExpectedUpcoming(MonthKeyOf(body), now) # <<>>
            /\ ValidTokens # <<>>
            /\ SendWith(body, now)
            => /\ BagCardinality(inflight') = BagCardinality(inflight) + 1
               /\ last' = last
               /\ \E q \in BagToSet(inflight') :
                    /\ q.pc = "push"
                    /\ CopiesIn(q, inflight') = CopiesIn(q, inflight) + 1
                    /\ Len(q.out) = Len(ValidTokens)
                    /\ \A i \in DOMAIN q.out :
                         /\ q.out[i].to = ValidTokens[i].token
                         /\ q.out[i].bills = ExpectedUpcoming(MonthKeyOf(body), now)
     /\ \A q \in Awaiting :
          GatewayReturns(q) /\ last'.status = 200 =>
            /\ Answered(200)
            /\ last'.extra.sent = Len(q.out)
            /\ ~CallsGateway]_vars

\* A send-upcoming request was answered with sent 1 by a server that holds
\* two registrations, one of them of the expected format.
C18_Witness ==
  /\ last.kind = "send" /\ last.status = 200 /\ last.extra.sent = 1
  /\ Len(pushTokens) = 2
  /\ Len(ValidTokens) = 1

\* C19: a registration with a non-empty token stores the token, whatever
\* its format, and is answered 200: at once if the token was stored, once
\* its write has completed otherwise.
C19_AnyTokenStored ==
  [][/\ Runs("register") =>
          \A body \in TokenBodies :
            body.parse = "ok" /\ Truthy(body.token) /\ RegisterWith(body) =>
              /\ TokenExists(pushTokens', body.token)
              /\ \/ Answered(200)
                 \/ \E q \in BagToSet(inflight') :
                      Issues(q) /\ q.kind = "register" /\ q.ok = 200
     /\ \A q \in Awaiting :
          q.kind = "register" /\ Resumes(q) => Answered(200)]_vars

\* The registration of a token without the ExponentPushToken[ prefix, on a
\* server that held no registration, was answered 200 after its write.
C19_Witness ==
  /\ last.kind = "register" /\ last.status = 200 /\ last.mutated /\ last.wrote
  /\ bills = <<>>
  /\ TokenExists(pushTokens, Str(TokenB))
  /\ TokenExists(disk.pushTokens, Str(TokenB))

CallsOut == \E q \in BagToSet(inflight') :
  q.pc \in {"push", "chat"} /\ CopiesIn(q, inflight') > CopiesIn(q, inflight)

\* C21: a chat request with a non-empty message, on a server without the
\* credential of the completion service, is answered 503 with a non-empty
\* reply string, and no outbound call is made.
C21_ChatWithoutKey ==
  [][Runs("chat") /\ ~apiKey =>
       \A body \in ChatBodies :
         /\ body.parse = "ok"
         /\ Truthy(body.message)
         /\ ChatWith(body)
         => /\ Answered(503)
            /\ last'.kind = "chat"
            /\ last'.extra.reply.k = "string"
            /\ last'.extra.reply.s # <<>>
            /\ ~CallsOut
            /\ inflight' = inflight]_vars

\* A chat request was answered 503 with the notice by a server that runs
\* without the credential and holds a bill.
C21_Witness ==
  /\ ~apiKey
  /\ last.kind = "chat" /\ last.status = 503
  /\ last.extra.reply = Str(UnavailableReply)
  /\ bills # <<>>

\* The write of q is rejected in the step.
Fails(q) ==
  /\ q.pc = "write"
  /\ CopiesIn(q, inflight') < CopiesIn(q, inflight)
  /\ ~Completes(q)

\* The most recent response answered a write that failed, and no write has
\* completed since: a write that has completed stays in flight until its
\* handler is resumed, and the resumption sends a response.
AfterFailedWrite ==
  /\ last.status = 500 /\ last.mutated
  /\ \A r \in Awaiting : r.pc # "written"

\* C22: when the durable write of a mutating request fails, the request is
\* answered with an error, the store keeps the mutation and the file keeps
\* its content; the next write that succeeds makes the file equal to the
\* store again.
C22_FailedWrite ==
  [][\A q \in Awaiting :
       /\ Fails(q) =>
            /\ last'.n = last.n + 1
            /\ last'.status \notin SuccessStatuses
            /\ StoreUnchanged
            /\ disk' = disk
       /\ AfterFailedWrite /\ Completes(q) => disk' = Stringify(Mem')]_vars

\* C23: when the store file is missing at startup, the empty store is
\* written to it before any request is served; when the file does not
\* parse, startup fails: no request is ever served and the file keeps its
\* content.
C23_Startup ==
  /\ [](server = "listening" \/ nreq > 0 => disk \notin {Absent, Corrupt})
  /\ [](disk = Corrupt /\ server # "starting" => server = "failed")
  /\ [][/\ disk = Absent /\ server' = "listening" =>
             /\ disk' = Stringify(EmptyStore)
             /\ bills' = <<>> /\ payments' = NoPayments /\ pushTokens' = <<>>
             /\ nreq' = 0
        /\ disk = Corrupt =>
             /\ disk' = Corrupt
             /\ server' \in {"starting", "failed"}
             /\ nreq' = 0 /\ last' = NoResponse
             /\ StoreUnchanged]_vars

\* The start of the server on a file that does not parse has failed; the
\* file is as it was and no request was received.
C23_Witness ==
  /\ server = "failed"
  /\ disk = Corrupt
  /\ nreq = 0

\* The update of bill billId that q made is still awaiting its write or its
\* resumption, and the store is as that update left it.
OverlapsUpdate(q, billId) ==
  /\ q.kind = "update" /\ q.id = billId
  /\ q.ok = 200 /\ q.mutated
  /\ q.snap = Stringify(Mem)

\* The bill at position j of the store after the step, as it is written.
WrittenBill(j) == Stringify(Mem').bills[j]

\* C24, as amended: no update is lost in the store.  An update that
\* overlaps an earlier update of the same bill changes the fields that its
\* body supplies and keeps every other field as the earlier update left it,
\* and the steps of the writes and the responses change nothing of the
\* store; an update is lost in the file only.
C24_NoLostUpdate ==
  [][/\ Runs("update") =>
          \A body \in UpdateBodies, q \in Awaiting :
            /\ body.parse = "ok"
            /\ OverlapsUpdate(q, pending.id)
            /\ UpdateWith(body)
            => \A j \in DOMAIN bills :
                 bills[j].id = pending.id =>
                   /\ KeepsUnsupplied(body, q.snap.bills[j], WrittenBill(j))
                   /\ body.name.k # "undefined" => bills'[j].name = JsString(body.name)
                   /\ body.amount.k # "undefined" => bills'[j].amount = ToNumber(body.amount)
     /\ \A q \in Awaiting : Completes(q) \/ Resumes(q) \/ Fails(q) => StoreUnchanged]_vars

\* Two overlapping updates of rent, one of the name and one of the amount,
\* have both been answered 200: the store shows both changes, the file the
\* change of the name only.
C24_Witness ==
  /\ pending = NoPending /\ inflight = EmptyBag
  /\ last.n = 2 /\ last.kind = "update" /\ last.status = 200
  /\ bills = <<[RentBill EXCEPT !.name = <<"gas">>, !.amount = Num(0 - 5)]>>
  /\ disk.bills = <<[RentBill EXCEPT !.name = <<"gas">>]>>

\* C24 as stated, of the overlapping updates of the model: when an update
\* that supplies other fields overlaps an earlier update of the same bill,
\* the stored bill shows one of the two changes only (the earlier one, or
\* the later one without the earlier).
C24_Original ==
  [][Runs("update") =>
       \A body \in UpdateBodies, q \in Awaiting :
         /\ body.parse = "ok"
         /\ OverlapsUpdate(q, pending.id)
         /\ UpdateWith(body)
         /\ bills' # bills
         => \E j \in DOMAIN bills :
              /\ bills[j].id = pending.id
              /\ ~KeepsUnsupplied(body, q.snap.bills[j], WrittenBill(j))]_vars

\* C25: every request received is eventually answered (the k-th request
\* received is followed by a k-th response), whatever happens to the other
\* requests.
C25_EveryRequestAnswered ==
  \A k \in 1..MaxRequests : (nreq >= k) ~> (last.n >= k)

\* C26: a request whose body exceeds the cap of 1,000,000 bytes fails with
\* an outcome of its own, PayloadTooLarge, which is not the BadRequest
\* outcome (status 400) of a malformed body, and the store is not mutated.
C26_PayloadTooLarge ==
  [][/\ Runs("create") =>
          \A uuid \in Uuids :
            CreateWith(PayloadTooLarge, uuid) =>
              /\ last'.n = last.n + 1
              /\ last'.status # 400
              /\ StoreUnchanged /\ NoWriteIssued
     /\ Runs("update") =>
          (UpdateWith(PayloadTooLarge) =>
              /\ last'.n = last.n + 1
              /\ last'.status # 400
              /\ StoreUnchanged /\ NoWriteIssued)]_vars

\* C27: the body of a request is parsed before its path is matched, so a
\* request with a malformed JSON body is answered 400 whatever its path: on
\* the paths of the routes and on a path no route matches.
C27_ParseBeforeDispatch ==
  [][/\ Runs("paid") /\ ToggleWith(InvalidJson) => Answered(400)
     /\ Runs("register") /\ RegisterWith(InvalidJson) => Answered(400)
     /\ Runs("chat") /\ ChatWith(InvalidJson) => Answered(400)
     /\ Runs("send") /\ (\E now \in Clock : SendWith(InvalidJson, now)) => Answered(400)
     /\ FallbackWith(InvalidJson) => Answered(400)]_vars

\* A step of the listing, of send-upcoming or of the chat: the listing is
\* answered, the handler of one of the others runs, or its outbound call
\* returns.
ReadsOnly ==
  \/ last'.n = last.n + 1 /\ last'.kind \in {"list", "send", "chat"}
  \/ Runs("send")
  \/ Runs("chat")
  \/ \E q \in Awaiting :
       q.kind \in {"send", "chat"} /\ CopiesIn(q, inflight') < CopiesIn(q, inflight)

\* The month keys a listing is asked for.
ListedMonths == {JsString(Or(m, Str(startOfMonthKey))) : m \in QueryMonths}

\* C28: the listing, the chat and send-upcoming change neither the bills,
\* nor the payment marks, nor the registrations, nor the file, and issue no
\* write, whatever they answer; so the projection of a month is the same
\* for a second listing when nothing else has run in between.
C28_ReadsLeaveStore ==
  [][ReadsOnly =>
       /\ StoreUnchanged
       /\ disk' = disk
       /\ NoWriteIssued
       /\ \A month \in ListedMonths :
            withPaymentStatus(Mem', month) = withPaymentStatus(Mem, month)]_vars

\* A listing was the second response of a server that holds a bill and no
\* entry for the month June, and whose file holds the store.
C28_Witness ==
  /\ last.kind = "list" /\ last.status = 200 /\ last.n = 2
  /\ bills # <<>>
  /\ June \notin DOMAIN payments
  /\ disk = Stringify(Mem)

\* C29: an unregistration with a non-empty token leaves no registration of
\* that token and keeps every other registration, in its order; the token
\* list is as it was when the token was not registered.  The request calls
\* persist() and is answered 200 once the write has completed.
C29_Unregister ==
  [][/\ Runs("unregister") =>
          \A body \in TokenBodies :
            /\ body.parse = "ok"
            /\ Truthy(body.token)
            /\ UnregisterWith(body)
            => LET Other(entry) == entry.token # body.token IN
                 /\ ~TokenExists(pushTokens', body.token)
                 /\ pushTokens' = SelectSeq(pushTokens, Other)
                 /\ ~TokenExists(pushTokens, body.token) => pushTokens' = pushTokens
                 /\ UNCHANGED <<bills, payments, objectPrototype>>
                 /\ \E q \in BagToSet(inflight') :
                      Issues(q) /\ q.kind = "unregister" /\ q.ok = 200
     /\ \A q \in Awaiting :
          q.kind = "unregister" /\ Resumes(q) => Answered(200)]_vars

\* The unregistration of one of two registered tokens was answered 200
\* after its write: the store and the file hold the other registration.
C29_Witness ==
  /\ last.kind = "unregister" /\ last.status = 200 /\ last.mutated /\ last.wrote
  /\ Len(pushTokens) = 1
  /\ pushTokens[1].token = Str(TokenA)
  /\ bills # <<>>
  /\ disk = Stringify(Mem)

\* C30: when a registration is answered 200, the file holds a registration
\* of its token at that moment: on the answer of a handler that finds the
\* token in the store, and on the answer of a handler resumed after its
\* write (whose token is the last of the list it wrote).
C30_DurableWhenAnswered ==
  [][/\ Runs("register") =>
          \A body \in TokenBodies :
            /\ body.parse = "ok"
            /\ Truthy(body.token)
            /\ RegisterWith(body)
            /\ Answered(200)
            => TokenExists(disk'.pushTokens, body.token)
     /\ \A q \in Awaiting :
          /\ q.kind = "register"
          /\ Resumes(q)
          /\ Answered(200)
          => LET n == Len(q.snap.pushTokens) IN
               n > 0 => TokenExists(disk'.pushTokens, q.snap.pushTokens[n].token)]_vars

\* C31: an unpaid bill whose dueDay is the day of the month of the
\* reference date is selected by send-upcoming at every time of that day.
C31_DueTodaySelected ==
  [][Runs("send") =>
       \A body \in SendBodies, now \in Clock :
         body.parse = "ok" /\ SendWith(body, now) =>
           \A j \in DOMAIN bills :
             /\ bills[j].dueDay = Num(now.day)
             /\ ~PaidLookup(Mem, MonthKeyOf(body), bills[j].id)
             => \E i \in DOMAIN UpcomingIds(MonthKeyOf(body), now) :
                  UpcomingIds(MonthKeyOf(body), now)[i] = bills[j].id]_vars

\* C32: once every request received has been answered and every write has
\* completed, none of them with a fault, the file holds the store, whatever
\* the order in which overlapping writes completed.
C32_QuiescentFileIsStore ==
  /\ pending = NoPending
  /\ inflight = EmptyBag
  /\ last.n = nreq
  => disk = Stringify(Mem)

\* C33: the isPaid of the 200 response of a paid-toggle is the truth value
\* the request asked for, which is the mark its own mutation left under its
\* month (the text of its write shows it), whatever has run since.
C33_AnsweredAsAsked ==
  [][\A q \in Awaiting :
       /\ q.kind = "paid"
       /\ Resumes(q)
       /\ Answered(200)
       /\ q.month \in DOMAIN q.snap.payments
       => last'.extra.isPaid = (q.id \in q.snap.payments[q.month])]_vars

\* C34: a bill that a creation adds is projected as unpaid in every month.
\* A mark for an id exists only when a bill of that id was marked, and ids
\* are unique, so a created bill that has a mark takes the id of a bill
\* deleted earlier.  (Ids that name a built-in property of Object.prototype
\* are left aside, see C5.)
C34_RecreatedUnpaid ==
  [][Runs("create") =>
       \A body \in CreateBodies, uuid \in Uuids :
         /\ CreateWith(body, uuid)
         /\ Len(bills') = Len(bills) + 1
         /\ bills'[Len(bills')].id \notin DOMAIN ObjectPrototypeBuiltins
         => \A month \in DOMAIN payments' \cup {May, June, ProtoKey} :
              ~withPaymentStatus(Mem', month)[Len(bills')].isPaid]_vars

\* C35: on the bills of a month and at the same instant, the client's
\* upcomingBills holds the bills of the server's upcoming selection, and no
\* bill whose isPaid is true.
C35_ClientMatchesServer ==
  [][Runs("send") =>
       \A body \in SendBodies, now \in Clock :
         body.parse = "ok" /\ SendWith(body, now) =>
           LET month == MonthKeyOf(body)
               shown == upcomingBills(withPaymentStatus(Mem, month), now)
               selected == Upcoming(Mem, month, now)
           IN /\ {shown[i].id : i \in DOMAIN shown} =
                   {selected[i].id : i \in DOMAIN selected}
              /\ \A i \in DOMAIN shown : ~shown[i].isPaid]_vars

\* C36: once no call of the PushManager is in flight, a token that is not
\* nil is registered at the server, or a further registerDeviceToken with
\* that token would begin a registration call.
C36_TokenMeansRegistered ==
  /\ client.calls = {}
  /\ client.token # Nil
  => \/ TokenExists(pushTokens, Str(client.token))
     \/ ENABLED registerDeviceToken(client.token)

\* C37: when the server holds the token the client has registered and some
\* unpaid bill is within the window, a send-upcoming request calls the push
\* gateway with a notification addressed to that token.
C37_ClientTokenNotified ==
  [][Runs("send") =>
       \A body \in SendBodies, now \in Clock :
         /\ body.parse = "ok"
         /\ SendWith(body, now)
         /\ client.token # Nil
         /\ TokenExists(pushTokens, Str(client.token))
         /\ Upcoming(Mem, MonthKeyOf(body), now) # <<>>
         => \E q \in BagToSet(inflight') :
              /\ q.pc = "push"
              /\ CopiesIn(q, inflight') > CopiesIn(q, inflight)
              /\ \E i \in DOMAIN q.out : q.out[i].to = Str(client.token)]_vars

====
